---------------------------- MODULE Spec2Model ----------------------------
(***************************************************************************)
(* The scoring pipeline of the hedge-fund agents: fundamentals_agent,      *)
(* sentiment_agent, risk_management_agent and portfolio_management_agent,  *)
(* each a function from the shared context state["data"] to a context      *)
(* extended with the keys the agent publishes.                             *)
(*                                                                         *)
(* Python floats are modelled as exact rationals [n |-> numerator,         *)
(* d |-> denominator], kept in lowest terms with d > 0.  The value with    *)
(* d = 0 stands for a missing number (NaN / None), which only the insider  *)
(* trades may carry and which pandas' dropna() removes.  Rounding of       *)
(* binary floating point is not modelled.                                  *)
(***************************************************************************)
EXTENDS Integers, Sequences, FiniteSets, TLC

VARIABLES data, done

vars == <<data, done>>

---------------------------------------------------------------------------
(* Exact rational arithmetic standing for Python's float operators.        *)

Abs(x) == IF x < 0 THEN -x ELSE x

RECURSIVE GCD(_, _)
GCD(a, b) == IF b = 0 THEN a ELSE GCD(b, a % b)

\* n/d in lowest terms with a positive denominator (d # 0).
Rat(n, d) ==
    LET g == GCD(Abs(n), Abs(d))
        s == IF d < 0 THEN -1 ELSE 1
    IN  [n |-> (s * n) \div g, d |-> (s * d) \div g]

\* An integer as a float.
R(i) == [n |-> i, d |-> 1]

\* float('nan') / None: a missing number.
NaN == [n |-> 0, d |-> 0]

IsNaN(x) == x.d = 0

RAdd(x, y) == Rat(x.n * y.d + y.n * x.d, x.d * y.d)

RSub(x, y) == Rat(x.n * y.d - y.n * x.d, x.d * y.d)

RMul(x, y) == Rat(x.n * y.n, x.d * y.d)

\* x / y for y # 0.
RDiv(x, y) == Rat(x.n * y.d, x.d * y.n)

RLt(x, y) == x.n * y.d < y.n * x.d

RLe(x, y) == x.n * y.d <= y.n * x.d

RGt(x, y) == RLt(y, x)

RGe(x, y) == RLe(y, x)

\* Python's min(x, y): x unless y < x.
RMin(x, y) == IF RLt(y, x) THEN y ELSE x

\* Python's max(x, y): x unless y > x.
RMax(x, y) == IF RGt(y, x) THEN y ELSE x

\* math.floor(x): the greatest integer <= x.
RFloor(x) == x.n \div x.d

\* Python's int(x) on a float: truncation toward zero.
RTrunc(x) == IF x.n >= 0 THEN x.n \div x.d ELSE -((-x.n) \div x.d)

---------------------------------------------------------------------------
(* The shared context: a dict from key to value.                           *)

\* Mutant of Publish: the returned dict holds the new keys only (no **data).
PublishOnly(d, upd) == upd

\* {**d, **upd}: every key of d kept, the keys of upd set to upd's values.
Publish(d, upd) ==
    [k \in (DOMAIN d) \cup (DOMAIN upd) |->
        IF k \in DOMAIN upd THEN upd[k] ELSE d[k]]

\* d.get(k, default)
Get(d, k, default) == IF k \in DOMAIN d THEN d[k] ELSE default

\* data["financial_metrics"][0]
Metrics(d) == d["financial_metrics"][1]

---------------------------------------------------------------------------
(* fundamentals_agent                                                      *)

B2I(b) == IF b THEN 1 ELSE 0

\* len([s for s in signals if s == which])
CountOf(signals, which) ==
    Cardinality({i \in DOMAIN signals : signals[i] = which})

\* 'bullish' if score >= 2 else 'bearish' if score == 0 else 'neutral'
ScoreSignal(score) ==
    IF score >= 2 THEN "bullish" ELSE IF score = 0 THEN "bearish" ELSE "neutral"

profitability_score(m) ==
      B2I(RGt(m.return_on_equity, Rat(15, 100)))
    + B2I(RGt(m.net_margin, Rat(20, 100)))
    + B2I(RGt(m.operating_margin, Rat(15, 100)))

growth_score(m) ==
      B2I(RGt(m.revenue_growth, Rat(10, 100)))
    + B2I(RGt(m.earnings_growth, Rat(10, 100)))
    + B2I(RGt(m.book_value_growth, Rat(10, 100)))

health_score(m) ==
      B2I(RLt(m.debt_to_equity, R(1)))
    + B2I(RGt(m.current_ratio, Rat(15, 10)))
    + B2I(RGt(m.quick_ratio, R(1)))

cash_flow_score(m) ==
      B2I(RGt(m.free_cash_flow_per_share,
              RMul(m.earnings_per_share, Rat(8, 10))))
    + B2I(RGt(m.free_cash_flow_per_share, R(0)))

\* 'bullish' if cash_flow_score == 2 else 'bearish' if cash_flow_score == 0 else 'neutral'
CashFlowSignal(score) ==
    IF score = 2 THEN "bullish" ELSE IF score = 0 THEN "bearish" ELSE "neutral"

valuation_score(m) ==
      B2I(RGt(m.price_to_earnings, R(0)) /\ RLt(m.price_to_earnings, R(30)))
    + B2I(RLt(m.price_to_book, R(5)))
    + B2I(RLt(m.price_to_sales, R(10)))

\* The list signals after the five appends.
FundamentalSignals(m) ==
    << ScoreSignal(profitability_score(m)),
       ScoreSignal(growth_score(m)),
       ScoreSignal(health_score(m)),
       CashFlowSignal(cash_flow_score(m)),
       ScoreSignal(valuation_score(m)) >>

\* Mutant of AggregateSignals: two agreeing sub-signals suffice.
AggregateSignalsTwo(signals) ==
    LET bullish_count == CountOf(signals, "bullish")
        bearish_count == CountOf(signals, "bearish")
    IN  IF bullish_count > bearish_count /\ bullish_count >= 2
        THEN [signal |-> "bullish",
              confidence |-> RMin(R(1), Rat(bullish_count - bearish_count, Len(signals)))]
        ELSE IF bearish_count > bullish_count /\ bearish_count >= 2
        THEN [signal |-> "bearish",
              confidence |-> RMin(R(1), Rat(bearish_count - bullish_count, Len(signals)))]
        ELSE [signal |-> "neutral", confidence |-> Rat(1, 2)]

\* The final signal and confidence from the list of sub-signals.
AggregateSignals(signals) ==
    LET bullish_count == CountOf(signals, "bullish")
        bearish_count == CountOf(signals, "bearish")
    IN  IF bullish_count > bearish_count /\ bullish_count >= 3
        THEN [signal |-> "bullish",
              confidence |-> RMin(R(1), Rat(bullish_count - bearish_count, Len(signals)))]
        ELSE IF bearish_count > bullish_count /\ bearish_count >= 3
        THEN [signal |-> "bearish",
              confidence |-> RMin(R(1), Rat(bearish_count - bullish_count, Len(signals)))]
        ELSE [signal |-> "neutral", confidence |-> Rat(1, 2)]

fundamentals_agent ==
    LET final == AggregateSignals(FundamentalSignals(Metrics(data)))
    IN  /\ data' = Publish(data, [fundamentals_signal |-> final.signal,
                                  fundamentals_confidence |-> final.confidence])
        /\ done' = done \cup {"fundamentals"}

---------------------------------------------------------------------------
(* sentiment_agent                                                         *)

\* pd.Series(...).dropna(): the numbers that are present.
DropNA(series) == SelectSeq(series, LAMBDA x : ~IsNaN(x))

RECURSIVE RSum(_)
RSum(series) ==
    IF series = <<>> THEN R(0) ELSE RAdd(Head(series), RSum(Tail(series)))

\* sentiment_metrics["insider_metrics"] for a non-empty list of trades.
InsiderMetrics(insider_trades) ==
    LET transaction_shares ==
            DropNA([i \in 1..Len(insider_trades) |-> insider_trades[i].shares])
        transaction_values ==
            DropNA([i \in 1..Len(insider_trades) |-> insider_trades[i].value])
        buys == Cardinality({i \in 1..Len(insider_trades) :
                                insider_trades[i].transaction_type = "buy"})
    IN  [total_transactions |-> Len(insider_trades),
         avg_transaction_size |->
            IF transaction_shares # <<>>
            THEN RDiv(RSum(transaction_shares), R(Len(transaction_shares)))
            ELSE R(0),
         total_value |->
            IF transaction_values # <<>> THEN RSum(transaction_values) ELSE R(0),
         buy_ratio |-> Rat(buys, Len(insider_trades))]

\* Mutant of InsiderSentiment: the bearish confidence is buy_ratio, not 1 - buy_ratio.
InsiderSentimentBuyRatio(insider_trades) ==
    IF insider_trades # <<>>
    THEN LET im == InsiderMetrics(insider_trades)
             buy_ratio == im.buy_ratio
             total_value == im.total_value
         IN  IF RGt(buy_ratio, Rat(7, 10)) /\ RGt(total_value, R(1000000))
             THEN [metrics |-> im, signal |-> "bullish",
                   confidence |-> RMin(R(1), buy_ratio)]
             ELSE IF RLt(buy_ratio, Rat(3, 10)) /\ RGt(total_value, R(1000000))
             THEN [metrics |-> im, signal |-> "bearish",
                   confidence |-> RMin(R(1), buy_ratio)]
             ELSE [metrics |-> im, signal |-> "neutral", confidence |-> Rat(1, 2)]
    ELSE [metrics |-> [total_transactions |-> 0, avg_transaction_size |-> R(0),
                       total_value |-> R(0), buy_ratio |-> R(0)],
          signal |-> "neutral", confidence |-> Rat(1, 2)]

\* The metrics, signal and confidence sentiment_agent computes.
InsiderSentiment(insider_trades) ==
    IF insider_trades # <<>>
    THEN LET im == InsiderMetrics(insider_trades)
             buy_ratio == im.buy_ratio
             total_value == im.total_value
         IN  IF RGt(buy_ratio, Rat(7, 10)) /\ RGt(total_value, R(1000000))
             THEN [metrics |-> im, signal |-> "bullish",
                   confidence |-> RMin(R(1), buy_ratio)]
             ELSE IF RLt(buy_ratio, Rat(3, 10)) /\ RGt(total_value, R(1000000))
             THEN [metrics |-> im, signal |-> "bearish",
                   confidence |-> RMin(R(1), RSub(R(1), buy_ratio))]
             ELSE [metrics |-> im, signal |-> "neutral", confidence |-> Rat(1, 2)]
    ELSE [metrics |-> [total_transactions |-> 0, avg_transaction_size |-> R(0),
                       total_value |-> R(0), buy_ratio |-> R(0)],
          signal |-> "neutral", confidence |-> Rat(1, 2)]

sentiment_agent ==
    LET s == InsiderSentiment(data["insider_trades"])
    IN  /\ data' = Publish(data, [sentiment_signal |-> s.signal,
                                  sentiment_confidence |-> s.confidence])
        /\ done' = done \cup {"sentiment"}

---------------------------------------------------------------------------
(* risk_management_agent                                                   *)

\* 1e12 dollars; market_cap is held in units of 1e9 dollars.
Trillion == R(1000)

\* min(1.0, max(0.0, beta / 2))
market_risk(m) == RMin(R(1), RMax(R(0), RDiv(m.beta, R(2))))

\* 1.0 - min(1.0, market_cap / 1e12)
size_risk(m) == RSub(R(1), RMin(R(1), RDiv(m.market_cap, Trillion)))

\* min(1.0, debt_to_equity / 2)
leverage_risk(m) == RMin(R(1), RDiv(m.debt_to_equity, R(2)))

\* max(0.0, 1.0 - current_ratio / 2)
liquidity_risk(m) == RMax(R(0), RSub(R(1), RDiv(m.current_ratio, R(2))))

total_risk_score(m) ==
    RAdd(RAdd(RAdd(RMul(market_risk(m), Rat(3, 10)),
                   RMul(size_risk(m), Rat(2, 10))),
              RMul(leverage_risk(m), Rat(3, 10))),
         RMul(liquidity_risk(m), Rat(2, 10)))

\* 1.0 - total_risk_score
base_position(m) == RSub(R(1), total_risk_score(m))

\* The list signals: the four (signal, confidence) pairs, absent ones defaulted.
InputSignals(d) ==
    << <<Get(d, "fundamentals_signal", "neutral"),
         Get(d, "fundamentals_confidence", Rat(1, 2))>>,
       <<Get(d, "technical_signal", "neutral"),
         Get(d, "technical_confidence", Rat(1, 2))>>,
       <<Get(d, "sentiment_signal", "neutral"),
         Get(d, "sentiment_confidence", Rat(1, 2))>>,
       <<Get(d, "valuation_signal", "neutral"),
         Get(d, "valuation_confidence", Rat(1, 2))>> >>

\* sum(conf for sig, conf in signals if sig == which)
SignalWeight(signals, which) ==
    RSum([i \in 1..Len(signals) |->
            IF signals[i][1] = which THEN signals[i][2] ELSE R(0)])

\* Mutant of CapPosition: the cap is left out.
CapPositionUncapped(position_size) == position_size

\* min(0.8, position_size)
CapPosition(position_size) == RMin(Rat(8, 10), position_size)

\* Mutant of ScalePosition: the weight is not limited to 1.0.
ScalePositionUnlimited(base, bullish_weight, bearish_weight) ==
    IF RGt(bullish_weight, bearish_weight)
    THEN [signal |-> "bullish",
          position_size |-> CapPosition(RMul(base, bullish_weight))]
    ELSE IF RGt(bearish_weight, bullish_weight)
    THEN [signal |-> "bearish",
          position_size |-> CapPosition(RMul(base, bearish_weight))]
    ELSE [signal |-> "neutral", position_size |-> CapPosition(R(0))]

\* The signal and capped position size from the base position and the weights.
ScalePosition(base, bullish_weight, bearish_weight) ==
    IF RGt(bullish_weight, bearish_weight)
    THEN [signal |-> "bullish",
          position_size |-> CapPosition(RMul(base, RMin(R(1), bullish_weight)))]
    ELSE IF RGt(bearish_weight, bullish_weight)
    THEN [signal |-> "bearish",
          position_size |-> CapPosition(RMul(base, RMin(R(1), bearish_weight)))]
    ELSE [signal |-> "neutral", position_size |-> CapPosition(R(0))]

RiskDecision(d) ==
    LET signals == InputSignals(d)
    IN  ScalePosition(base_position(Metrics(d)),
                      SignalWeight(signals, "bullish"),
                      SignalWeight(signals, "bearish"))

risk_management_agent ==
    LET r == RiskDecision(data)
    IN  /\ data' = Publish(data, [risk_signal |-> r.signal,
                                  position_size |-> r.position_size])
        /\ done' = done \cup {"risk"}

---------------------------------------------------------------------------
(* portfolio_management_agent                                              *)

\* round(x) to the nearest integer, ties to even, as Python's float formatting.
RoundHalfEven(x) ==
    LET f == RFloor(x)
        r == RSub(x, R(f))
    IN  IF RLt(r, Rat(1, 2)) THEN f
        ELSE IF RGt(r, Rat(1, 2)) THEN f + 1
        ELSE IF f % 2 = 0 THEN f ELSE f + 1

\* f"{x*100:.0f}%": the whole number of percent printed.
FormatPct0(x) == RoundHalfEven(RMul(x, R(100)))

\* f"{x*100:.1f}%": the number of tenths of a percent printed.
FormatPct1(x) == RoundHalfEven(RMul(x, R(1000)))

\* Mutant of TargetShares: the quotient is rounded up, not truncated.
TargetSharesRoundedUp(target_position_value, current_price) ==
    IF RGt(current_price, R(0))
    THEN -RFloor(RDiv(RSub(R(0), target_position_value), current_price))
    ELSE 0

\* int(target_position_value / current_price) if current_price > 0 else 0
TargetShares(target_position_value, current_price) ==
    IF RGt(current_price, R(0))
    THEN RTrunc(RDiv(target_position_value, current_price))
    ELSE 0

\* Mutant of OrderFor: a sale's quantity is target - current, not current - target.
OrderForSigned(target_shares, current_shares) ==
    IF target_shares > current_shares
    THEN [action |-> "buy", quantity |-> target_shares - current_shares]
    ELSE IF target_shares < current_shares
    THEN [action |-> "sell", quantity |-> target_shares - current_shares]
    ELSE [action |-> "hold", quantity |-> 0]

\* The action and quantity from the target and the held shares.
OrderFor(target_shares, current_shares) ==
    IF target_shares > current_shares
    THEN [action |-> "buy", quantity |-> target_shares - current_shares]
    ELSE IF target_shares < current_shares
    THEN [action |-> "sell", quantity |-> current_shares - target_shares]
    ELSE [action |-> "hold", quantity |-> 0]

\* Mutant of PositionSize: the position is scaled by the fundamentals confidence.
PositionSizeByConfidence(d) ==
    RMul(Get(d, "position_size", R(0)), Get(d, "fundamentals_confidence", Rat(1, 2)))

\* data.get("position_size", 0)
PositionSize(d) == Get(d, "position_size", R(0))

\* The dict decision.
PortfolioDecision(d) ==
    LET portfolio == d["portfolio"]
        position_size == PositionSize(d)
        current_price == d["prices"][Len(d["prices"])].close
        total_portfolio_value ==
            RAdd(portfolio.cash, RMul(R(portfolio.stock), current_price))
        target_position_value == RMul(total_portfolio_value, position_size)
        target_shares == TargetShares(target_position_value, current_price)
        current_shares == portfolio.stock
        order == OrderFor(target_shares, current_shares)
        signals == InputSignals(d)
    IN  [action |-> order.action,
         quantity |-> order.quantity,
         reasoning |->
            [signals |->
                [fundamentals |-> [signal |-> signals[1][1],
                                   confidence |-> FormatPct0(signals[1][2])],
                 technical |-> [signal |-> signals[2][1],
                                confidence |-> FormatPct0(signals[2][2])],
                 sentiment |-> [signal |-> signals[3][1],
                                confidence |-> FormatPct0(signals[3][2])],
                 valuation |-> [signal |-> signals[4][1],
                                confidence |-> FormatPct0(signals[4][2])],
                 risk |-> [signal |-> Get(d, "risk_signal", "neutral"),
                           position_size |-> FormatPct1(position_size)]],
             portfolio |->
                [current_shares |-> current_shares,
                 target_shares |-> target_shares,
                 current_price |-> current_price,
                 total_value |-> total_portfolio_value]]]

portfolio_management_agent ==
    /\ data' = Publish(data, [final_decision |-> PortfolioDecision(data)])
    /\ done' = done \cup {"portfolio"}

---------------------------------------------------------------------------
(* The inputs the data provider hands to the pipeline.                     *)

\* Longest list of insider trades explored.
MaxTrades == 4

\* Most shares held in the portfolio explored.
MaxStock == 3

\* Most cash (whole dollars) explored when the portfolio manager runs alone.
MaxCash == 12

Signals == {"bullish", "bearish", "neutral"}

\* The metrics of the specification's worked scenario, with beta 1 and a
\* market cap of 2e12.
StrongMetrics ==
    [return_on_equity |-> Rat(20, 100), net_margin |-> Rat(25, 100),
     operating_margin |-> Rat(18, 100), revenue_growth |-> Rat(15, 100),
     earnings_growth |-> Rat(12, 100), book_value_growth |-> Rat(5, 100),
     debt_to_equity |-> Rat(1, 2), current_ratio |-> R(2),
     quick_ratio |-> Rat(12, 10), free_cash_flow_per_share |-> R(2),
     earnings_per_share |-> R(2), price_to_earnings |-> R(20),
     price_to_book |-> R(3), price_to_sales |-> R(5),
     beta |-> R(1), market_cap |-> R(2000)]

\* Every test of every sub-score fails.
WeakMetrics ==
    [return_on_equity |-> Rat(15, 100), net_margin |-> Rat(20, 100),
     operating_margin |-> Rat(15, 100), revenue_growth |-> Rat(10, 100),
     earnings_growth |-> Rat(5, 100), book_value_growth |-> Rat(5, 100),
     debt_to_equity |-> R(1), current_ratio |-> Rat(3, 2),
     quick_ratio |-> R(1), free_cash_flow_per_share |-> R(-1),
     earnings_per_share |-> R(2), price_to_earnings |-> R(0),
     price_to_book |-> R(5), price_to_sales |-> R(10),
     beta |-> R(1), market_cap |-> R(2000)]

\* Two bullish sub-signals, one bearish, two neutral.
MixedMetrics ==
    [StrongMetrics EXCEPT !.revenue_growth = Rat(10, 100),
                          !.earnings_growth = Rat(5, 100),
                          !.earnings_per_share = R(3),
                          !.price_to_book = R(5),
                          !.price_to_sales = R(10)]

\* Values on both sides of (and on) every threshold fundamentals_agent tests.
FundamentalsMetricsSpace ==
    [return_on_equity : {Rat(15, 100), Rat(20, 100)},
     net_margin : {Rat(20, 100), Rat(25, 100)},
     operating_margin : {Rat(15, 100), Rat(18, 100)},
     revenue_growth : {Rat(10, 100), Rat(15, 100)},
     earnings_growth : {Rat(5, 100), Rat(12, 100)},
     book_value_growth : {Rat(5, 100), Rat(11, 100)},
     debt_to_equity : {Rat(1, 2), R(1)},
     current_ratio : {Rat(3, 2), R(2)},
     quick_ratio : {R(1), Rat(12, 10)},
     free_cash_flow_per_share : {R(-1), R(2)},
     earnings_per_share : {R(-2), R(2), R(3)},
     price_to_earnings : {R(0), R(20), R(30)},
     price_to_book : {R(3), R(5)},
     price_to_sales : {R(5), R(10)},
     beta : {R(1)},
     market_cap : {R(2000)}]

\* Plausible and adversarial values of the four ratios risk_management_agent reads.
RiskMetricsSpace ==
    { [StrongMetrics EXCEPT !.beta = b, !.market_cap = mc,
                            !.debt_to_equity = de, !.current_ratio = cr] :
        b \in {R(-1), R(1), R(4), R(100)},
        mc \in {R(-5000), R(500), R(2000)},
        de \in {R(-10), R(0), R(1), R(50)},
        cr \in {R(-10), R(1), R(3)} }

\* An upstream (signal, confidence) pair, or <<>> when the producer did not run.
SignalOptions ==
    { <<>>, <<"neutral", Rat(1, 2)>>, <<"bullish", Rat(2, 5)>>, <<"bullish", R(1)>>,
      <<"bearish", Rat(3, 5)>>, <<"bearish", R(1)>> }

\* The pairs drawn for the two producers outside this repository.
ExternalSignalOptions ==
    { <<>>, <<"neutral", Rat(1, 2)>>, <<"bullish", Rat(2, 5)>>, <<"bearish", R(1)>> }

\* The keys a producer's pair occupies in the context (none when it did not run).
SignalKeys(signal_key, confidence_key, opt) ==
    IF opt = <<>> THEN <<>>
    ELSE (signal_key :> opt[1]) @@ (confidence_key :> opt[2])

\* Trades with and without a missing value or share count.
TradeSpace ==
    { [shares |-> sh, value |-> v, transaction_type |-> ty] :
        ty \in {"buy", "sell"},
        <<sh, v>> \in {<<R(100), R(600000)>>, <<NaN, R(300000)>>, <<R(300), NaN>>} }

TradeLists == UNION { [1..k -> TradeSpace] : k \in 0..MaxTrades }

BigBuys ==
    << [shares |-> R(100), value |-> R(600000), transaction_type |-> "buy"],
       [shares |-> R(100), value |-> R(600000), transaction_type |-> "buy"] >>

BigSells ==
    << [shares |-> R(100), value |-> R(600000), transaction_type |-> "sell"],
       [shares |-> R(100), value |-> R(600000), transaction_type |-> "sell"] >>

\* state["data"] as the data provider leaves it.
Context(metrics, insider_trades, cash, stock, close) ==
    [financial_metrics |-> <<metrics>>,
     insider_trades |-> insider_trades,
     portfolio |-> [cash |-> cash, stock |-> stock],
     prices |-> <<[close |-> close]>>]

---------------------------------------------------------------------------
(* The pipeline: Fundamentals and Sentiment in either order, then the Risk *)
(* Manager, then the Portfolio Manager, each once per evaluation cycle.    *)

\* The stages whose published keys a stage reads.
Upstream(stage) ==
    CASE stage = "risk" -> {"fundamentals", "sentiment"}
      [] stage = "portfolio" -> {"risk"}
      [] OTHER -> {}

\* A stage runs once per evaluation cycle.
Once(stage) == stage \notin done

Ready(stage) == Once(stage) /\ Upstream(stage) \subseteq done

PipelineMetrics ==
    { [m EXCEPT !.beta = b, !.market_cap = mc,
                !.debt_to_equity = de, !.current_ratio = cr] :
        m \in {StrongMetrics, WeakMetrics, MixedMetrics},
        b \in {R(1), R(100)},
        mc \in {R(-5000), R(2000)},
        de \in {R(-10), Rat(1, 2), R(50)},
        cr \in {R(-10), R(3)} }

PipelineSignalOptions == { <<>>, <<"bullish", R(1)>>, <<"bearish", Rat(3, 5)>> }

Init ==
    \E m \in PipelineMetrics, trades \in {<<>>, BigBuys, BigSells},
       tech \in PipelineSignalOptions, val \in PipelineSignalOptions,
       cash \in {R(0), R(1000)}, stock \in {0, MaxStock},
       close \in {R(0), R(10), R(30)} :
        /\ data = Context(m, trades, cash, stock, close)
                    @@ SignalKeys("technical_signal", "technical_confidence", tech)
                    @@ SignalKeys("valuation_signal", "valuation_confidence", val)
        /\ done = {}

Next ==
    \/ Ready("fundamentals") /\ fundamentals_agent
    \/ Ready("sentiment") /\ sentiment_agent
    \/ Ready("risk") /\ risk_management_agent
    \/ Ready("portfolio") /\ portfolio_management_agent

Spec == Init /\ [][Next]_vars

---------------------------------------------------------------------------
(* Each agent alone, over the whole of its input space.                    *)

InitFundamentals ==
    \E m \in FundamentalsMetricsSpace :
        /\ data = Context(m, <<>>, R(1000), 0, R(10))
        /\ done = {}

NextFundamentals == Once("fundamentals") /\ fundamentals_agent

SpecFundamentals == InitFundamentals /\ [][NextFundamentals]_vars

InitSentiment ==
    \E trades \in TradeLists :
        /\ data = Context(StrongMetrics, trades, R(1000), 0, R(10))
        /\ done = {}

NextSentiment == Once("sentiment") /\ sentiment_agent

SpecSentiment == InitSentiment /\ [][NextSentiment]_vars

InitRisk ==
    \E m \in RiskMetricsSpace,
       f \in SignalOptions, t \in ExternalSignalOptions,
       s \in SignalOptions, v \in ExternalSignalOptions :
        /\ data = Context(m, <<>>, R(1000), 0, R(10))
                    @@ SignalKeys("fundamentals_signal", "fundamentals_confidence", f)
                    @@ SignalKeys("technical_signal", "technical_confidence", t)
                    @@ SignalKeys("sentiment_signal", "sentiment_confidence", s)
                    @@ SignalKeys("valuation_signal", "valuation_confidence", v)
        /\ done = {}

NextRisk == Once("risk") /\ risk_management_agent

SpecRisk == InitRisk /\ [][NextRisk]_vars

\* What the Risk Manager may have published (<<>>: it did not run).
PositionOptions ==
    { <<>>, <<"neutral", R(0)>>, <<"bearish", Rat(-1, 5)>>, <<"bullish", Rat(-6, 5)>>,
      <<"bullish", Rat(1, 3)>>, <<"bearish", Rat(1, 2)>>, <<"bullish", Rat(4, 5)>> }

InitPortfolio ==
    \E p \in PositionOptions, cash \in 0..MaxCash, stock \in 0..MaxStock,
       close \in {R(-1), R(0), Rat(1, 2), R(3), R(7)} :
        /\ data = Context(StrongMetrics, <<>>, R(cash), stock, close)
                    @@ SignalKeys("risk_signal", "position_size", p)
        /\ done = {}

NextPortfolio == Once("portfolio") /\ portfolio_management_agent

SpecPortfolio == InitPortfolio /\ [][NextPortfolio]_vars

---------------------------------------------------------------------------
(* Properties of risk_management_agent, checked under SpecRisk.            *)

RiskRan == "risk" \in done

\* C1: the position_size the Risk Manager publishes is at most 0.8, for every
\* metrics record (adversarial ones included) and every combination of the
\* four upstream (signal, confidence) pairs.
C1_PositionSizeAtMostCap ==
    RiskRan => RLe(data["position_size"], Rat(8, 10))

\* The cap binds on an adversarial record: beta = 100, and the uncapped
\* position (base position times a weight of at least 1) exceeds 0.8.
C1_Witness ==
    /\ RiskRan
    /\ Metrics(data).beta = R(100)
    /\ RGt(base_position(Metrics(data)), Rat(8, 10))
    /\ data["risk_signal"] = "bullish"
    /\ data["position_size"] = Rat(8, 10)

\* C2: the published position_size lies in [0, 0.8]; in particular it is never
\* negative, also for negative market_cap, debt_to_equity or current_ratio.
C2_PositionSizeInRange ==
    RiskRan => /\ RGe(data["position_size"], R(0))
               /\ RLe(data["position_size"], Rat(8, 10))

InUnit(x) == RGe(x, R(0)) /\ RLe(x, R(1))

\* C3: each of the four risk sub-scores lies in [0,1] for every input, and so
\* do total_risk and base_position.
C3_SubScoresInUnit ==
    RiskRan =>
        LET m == Metrics(data)
        IN  /\ InUnit(market_risk(m))
            /\ InUnit(size_risk(m))
            /\ InUnit(leverage_risk(m))
            /\ InUnit(liquidity_risk(m))
            /\ InUnit(total_risk_score(m))
            /\ InUnit(base_position(m))

\* The confidence one source adds to the weight of `which`: its confidence
\* when its signal is present and equals `which`, nothing otherwise.
C8_SourceWeight(signal_key, confidence_key, which) ==
    IF signal_key \in DOMAIN data /\ data[signal_key] = which
    THEN data[confidence_key]
    ELSE R(0)

C8_Weight(which) ==
    RAdd(RAdd(RAdd(C8_SourceWeight("fundamentals_signal", "fundamentals_confidence", which),
                   C8_SourceWeight("technical_signal", "technical_confidence", which)),
              C8_SourceWeight("sentiment_signal", "sentiment_confidence", which)),
         C8_SourceWeight("valuation_signal", "valuation_confidence", which))

\* 1 - (0.3*market_risk + 0.2*size_risk + 0.3*leverage_risk + 0.2*liquidity_risk)
C8_BasePosition ==
    LET m == Metrics(data)
    IN  RSub(R(1), RAdd(RAdd(RMul(Rat(3, 10), market_risk(m)),
                             RMul(Rat(2, 10), size_risk(m))),
                        RAdd(RMul(Rat(3, 10), leverage_risk(m)),
                             RMul(Rat(2, 10), liquidity_risk(m)))))

\* C8: with bullish_weight and bearish_weight the sums of the confidences of
\* the bullish and of the bearish input signals (an absent one adds to
\* neither), the Risk Manager publishes bullish with position_size =
\* min(0.8, base_position * min(1.0, bullish_weight)) iff bullish_weight >
\* bearish_weight, bearish with min(0.8, base_position * min(1.0,
\* bearish_weight)) iff bearish_weight > bullish_weight, and neutral with
\* position_size 0 iff the weights are equal.
C8_WeightedAgreement ==
    RiskRan =>
        LET bw == C8_Weight("bullish")
            brw == C8_Weight("bearish")
            sig == data["risk_signal"]
            ps == data["position_size"]
        IN  /\ (sig = "bullish") <=> RGt(bw, brw)
            /\ (sig = "bearish") <=> RGt(brw, bw)
            /\ (sig = "neutral") <=> (bw = brw)
            /\ sig = "bullish" =>
                  ps = RMin(Rat(8, 10), RMul(C8_BasePosition, RMin(R(1), bw)))
            /\ sig = "bearish" =>
                  ps = RMin(Rat(8, 10), RMul(C8_BasePosition, RMin(R(1), brw)))
            /\ sig = "neutral" => ps = R(0)

\* The specification's scenario (beta 4, market cap 2e12, debt/equity 0,
\* current ratio 3: base position 0.7) with two bearish signals of weight 1.6
\* against a bullish one of 0.4 and an absent producer: bearish, 0.7.
C8_Witness ==
    /\ RiskRan
    /\ Metrics(data).beta = R(4)
    /\ Metrics(data).market_cap = R(2000)
    /\ Metrics(data).debt_to_equity = R(0)
    /\ Metrics(data).current_ratio = R(3)
    /\ "valuation_signal" \notin DOMAIN data
    /\ C8_Weight("bullish") = Rat(2, 5)
    /\ C8_Weight("bearish") = Rat(8, 5)
    /\ data["risk_signal"] = "bearish"
    /\ data["position_size"] = Rat(7, 10)

---------------------------------------------------------------------------
(* Properties of portfolio_management_agent.                               *)

PortfolioRan == "portfolio" \in done

\* C4: every Order has quantity >= 0 and action = "hold" iff quantity = 0; a
\* buy or sell order has quantity >= 1; and when target_shares equals the
\* held shares the order is (hold, 0).  Checked under SpecPortfolio.
C4_OrderWellFormed ==
    PortfolioRan =>
        LET o == data["final_decision"]
            p == o.reasoning.portfolio
        IN  /\ o.action \in {"buy", "sell", "hold"}
            /\ o.quantity >= 0
            /\ (o.action = "hold") <=> (o.quantity = 0)
            /\ o.action \in {"buy", "sell"} => o.quantity >= 1
            /\ p.target_shares = p.current_shares =>
                  o.action = "hold" /\ o.quantity = 0

\* A round-trip no-op on a non-empty holding: the target equals the shares
\* held, at a positive price and position size.
C4_Witness ==
    /\ PortfolioRan
    /\ data["final_decision"].reasoning.portfolio.current_shares > 0
    /\ data["final_decision"].reasoning.portfolio.target_shares
          = data["final_decision"].reasoning.portfolio.current_shares
    /\ RGt(data["position_size"], R(0))
    /\ data["final_decision"].action = "hold"
    /\ data["final_decision"].quantity = 0

\* floor((cash + stock*price) * position_size / price) when price > 0, else 0.
C5_FloorTarget ==
    LET cash == data["portfolio"].cash
        stock == data["portfolio"].stock
        price == data["prices"][Len(data["prices"])].close
        position_size == IF "position_size" \in DOMAIN data
                         THEN data["position_size"] ELSE R(0)
    IN  IF RGt(price, R(0))
        THEN RFloor(RDiv(RMul(RAdd(cash, RMul(R(stock), price)), position_size), price))
        ELSE 0

\* C5: target_shares = floor((cash + stock*price) * position_size / price)
\* when price > 0 and 0 otherwise; the order is buy target-current when target >
\* current, sell current-target when target < current, hold 0 when equal; so at
\* price 0 all held shares are sold, or the order is hold when none are held.
\* Checked under Spec, where position_size is what the Risk Manager published.
C5_TargetIsFloor ==
    PortfolioRan =>
        LET o == data["final_decision"]
            target == C5_FloorTarget
            current == data["portfolio"].stock
            price == data["prices"][Len(data["prices"])].close
        IN  /\ o.reasoning.portfolio.target_shares = target
            /\ target > current => o.action = "buy" /\ o.quantity = target - current
            /\ target < current => o.action = "sell" /\ o.quantity = current - target
            /\ target = current => o.action = "hold" /\ o.quantity = 0
            /\ price = R(0) =>
                  IF current > 0
                  THEN o.action = "sell" /\ o.quantity = current
                  ELSE o.action = "hold" /\ o.quantity = 0

\* The keys that carry the upstream and risk signals and confidences.
C10_SignalKeySet ==
    {"fundamentals_signal", "fundamentals_confidence",
     "technical_signal", "technical_confidence",
     "sentiment_signal", "sentiment_confidence",
     "valuation_signal", "valuation_confidence", "risk_signal"}

\* Every context that agrees with d on position_size, the portfolio and the
\* prices, with the signals and confidences set (or left out) in every way.
C10_SignalVariants(d) ==
    { [k \in (DOMAIN d) \ C10_SignalKeySet |-> d[k]]
        @@ SignalKeys("fundamentals_signal", "fundamentals_confidence", f)
        @@ SignalKeys("technical_signal", "technical_confidence", t)
        @@ SignalKeys("sentiment_signal", "sentiment_confidence", s)
        @@ SignalKeys("valuation_signal", "valuation_confidence", v)
        @@ (IF r = "absent" THEN <<>> ELSE ("risk_signal" :> r)) :
        f \in PipelineSignalOptions, t \in {<<>>, <<"bearish", Rat(3, 5)>>},
        s \in PipelineSignalOptions, v \in {<<>>, <<"bullish", R(1)>>},
        r \in Signals \cup {"absent"} }

\* C10: the Order's action and quantity depend only on position_size, the
\* portfolio and the latest close: every context that agrees with the one the
\* Portfolio Manager ran on in those values, whatever its fundamentals,
\* technical, sentiment, valuation and risk signals and confidences, yields the
\* same action and quantity.  Checked under SpecPortfolio.
C10_OrderIgnoresSignals ==
    PortfolioRan =>
        \A alt \in C10_SignalVariants(data) :
            LET o == PortfolioDecision(alt)
            IN  /\ o.action = data["final_decision"].action
                /\ o.quantity = data["final_decision"].quantity

\* A purchase decided on a context whose audit record shows no upstream signal
\* at all, while variants with every signal set exist.
C10_Witness ==
    /\ PortfolioRan
    /\ data["final_decision"].action = "buy"
    /\ data["final_decision"].quantity > 1
    /\ "fundamentals_signal" \notin DOMAIN data
    /\ \E alt \in C10_SignalVariants(data) :
          /\ "fundamentals_signal" \in DOMAIN alt
          /\ alt["fundamentals_signal"] = "bearish"
          /\ "risk_signal" \in DOMAIN alt
          /\ alt["risk_signal"] = "neutral"
          /\ PortfolioDecision(alt).reasoning.signals
                # data["final_decision"].reasoning.signals

---------------------------------------------------------------------------
(* Properties of fundamentals_agent, checked under SpecFundamentals.       *)

FundamentalsRan == "fundamentals" \in done

\* C6: for every complete metrics record the published signal is bullish,
\* bearish or neutral and the confidence lies in [0,1]; with the counts taken
\* over the five sub-signals, the signal is bullish iff bullish_count >
\* bearish_count and bullish_count >= 3, bearish iff bearish_count >
\* bullish_count and bearish_count >= 3, neutral otherwise; the confidence is
\* min(1.0, |bullish_count - bearish_count| / 5) when non-neutral and 0.5 when
\* neutral.
C6_FundamentalsRule ==
    FundamentalsRan =>
        LET subs == FundamentalSignals(Metrics(data))
            bc == Cardinality({i \in 1..5 : subs[i] = "bullish"})
            brc == Cardinality({i \in 1..5 : subs[i] = "bearish"})
            sig == data["fundamentals_signal"]
            conf == data["fundamentals_confidence"]
        IN  /\ Len(subs) = 5
            /\ sig \in {"bullish", "bearish", "neutral"}
            /\ RGe(conf, R(0)) /\ RLe(conf, R(1))
            /\ (sig = "bullish") <=> (bc > brc /\ bc >= 3)
            /\ (sig = "bearish") <=> (brc > bc /\ brc >= 3)
            /\ (sig = "neutral") <=> ~(bc > brc /\ bc >= 3) /\ ~(brc > bc /\ brc >= 3)
            /\ sig # "neutral" => conf = RMin(R(1), Rat(Abs(bc - brc), 5))
            /\ sig = "neutral" => conf = Rat(1, 2)

\* The specification's scenario: five bullish sub-signals give bullish, 1.0.
C6_Witness ==
    /\ FundamentalsRan
    /\ Metrics(data) = StrongMetrics
    /\ FundamentalSignals(Metrics(data))
          = <<"bullish", "bullish", "bullish", "bullish", "bullish">>
    /\ data["fundamentals_signal"] = "bullish"
    /\ data["fundamentals_confidence"] = R(1)

---------------------------------------------------------------------------
(* Properties of sentiment_agent, checked under SpecSentiment.             *)

SentimentRan == "sentiment" \in done

\* sum(value) over the trades whose value is present.
RECURSIVE C7_TotalValue(_)
C7_TotalValue(trades) ==
    IF trades = <<>> THEN R(0)
    ELSE RAdd(IF Head(trades).value.d = 0 THEN R(0) ELSE Head(trades).value,
              C7_TotalValue(Tail(trades)))

\* C7: an empty list of trades gives (neutral, 0.5) with all aggregate metrics
\* zero; otherwise, with buy_ratio = count(buy)/count(all) and total_value =
\* sum(value), the result is (bullish, min(1.0, buy_ratio)) iff buy_ratio > 0.7
\* and total_value > 1,000,000, (bearish, min(1.0, 1 - buy_ratio)) iff
\* buy_ratio < 0.3 and total_value > 1,000,000, and (neutral, 0.5) in every
\* other case; the confidence is always in [0,1].
C7_SentimentRule ==
    SentimentRan =>
        LET trades == data["insider_trades"]
            sig == data["sentiment_signal"]
            conf == data["sentiment_confidence"]
            im == InsiderSentiment(trades).metrics
        IN  /\ RGe(conf, R(0)) /\ RLe(conf, R(1))
            /\ trades = <<>> =>
                  /\ sig = "neutral" /\ conf = Rat(1, 2)
                  /\ im.total_transactions = 0
                  /\ im.avg_transaction_size = R(0)
                  /\ im.total_value = R(0)
                  /\ im.buy_ratio = R(0)
            /\ trades # <<>> =>
                  LET n == Len(trades)
                      buys == Cardinality({i \in 1..n :
                                              trades[i].transaction_type = "buy"})
                      buy_ratio == Rat(buys, n)
                      total_value == C7_TotalValue(trades)
                      strong == RGt(total_value, R(1000000))
                      bull == RGt(buy_ratio, Rat(7, 10)) /\ strong
                      bear == RLt(buy_ratio, Rat(3, 10)) /\ strong
                  IN  /\ im.buy_ratio = buy_ratio
                      /\ im.total_value = total_value
                      /\ (sig = "bullish") <=> bull
                      /\ (sig = "bearish") <=> bear
                      /\ (sig = "neutral") <=> (~bull /\ ~bear)
                      /\ sig = "bullish" => conf = RMin(R(1), buy_ratio)
                      /\ sig = "bearish" => conf = RMin(R(1), RSub(R(1), buy_ratio))
                      /\ sig = "neutral" => conf = Rat(1, 2)

\* Three sales and one purchase worth more than 1,000,000 in all (one value
\* missing): bearish with confidence 1 - 1/4.
C7_Witness ==
    /\ SentimentRan
    /\ Len(data["insider_trades"]) = 4
    /\ \E i \in 1..4 : data["insider_trades"][i].value = NaN
    /\ InsiderSentiment(data["insider_trades"]).metrics.buy_ratio = Rat(1, 4)
    /\ data["sentiment_signal"] = "bearish"
    /\ data["sentiment_confidence"] = Rat(3, 4)

---------------------------------------------------------------------------
(* The frame of every stage, checked under Spec.                           *)

C9_Stages == {"fundamentals", "sentiment", "risk", "portfolio"}

\* The keys a stage publishes.
C9_OwnKeys(stage) ==
    CASE stage = "fundamentals" -> {"fundamentals_signal", "fundamentals_confidence"}
      [] stage = "sentiment" -> {"sentiment_signal", "sentiment_confidence"}
      [] stage = "risk" -> {"risk_signal", "position_size"}
      [] stage = "portfolio" -> {"final_decision"}

\* C9: along any run of the pipeline the shared context only grows: the stage
\* that runs leaves every key it does not publish unchanged, adds exactly its
\* own keys, and overwrites no key that was already there.
C9_ContextOnlyGrows ==
    [][\A stage \in C9_Stages :
          (stage \notin done /\ stage \in done') =>
              /\ done' = done \cup {stage}
              /\ C9_OwnKeys(stage) \cap DOMAIN data = {}
              /\ DOMAIN data' = (DOMAIN data) \cup C9_OwnKeys(stage)
              /\ \A k \in DOMAIN data : data'[k] = data[k]]_vars

\* The pipeline ran to its end on a context with both external producers
\* present: every input key and every published key is in the context.
C9_Witness ==
    /\ done = C9_Stages
    /\ DOMAIN data =
          {"financial_metrics", "insider_trades", "portfolio", "prices",
           "technical_signal", "technical_confidence",
           "valuation_signal", "valuation_confidence"}
          \cup UNION {C9_OwnKeys(stage) : stage \in C9_Stages}
    /\ data["final_decision"].action = "buy"

---------------------------------------------------------------------------
(* The Risk Manager followed by the Portfolio Manager, checked under Spec  *)
(* (every portfolio drawn there has cash >= 0 and stock >= 0).             *)

\* The latest close in the context.
LatestClose == data["prices"][Len(data["prices"])].close

\* C11: for any metrics and a portfolio with cash >= 0 and stock >= 0, a sell
\* order never sells more shares than are held: action = "sell" implies
\* quantity <= stock; equivalently target_shares >= 0, so that the order never
\* creates a short position.
C11_NoShortSale ==
    (PortfolioRan /\ RGe(data["portfolio"].cash, R(0)) /\ data["portfolio"].stock >= 0) =>
        LET o == data["final_decision"]
        IN  /\ o.action = "sell" => o.quantity <= data["portfolio"].stock
            /\ o.reasoning.portfolio.target_shares >= 0

\* C12: for a portfolio with cash >= 0 and stock >= 0 and a price > 0, a buy
\* order is affordable from cash alone (quantity * price <= cash), and the
\* resulting holding target_shares * price never exceeds 80% of
\* total_portfolio_value = cash + stock * price.
C12_BuyAffordable ==
    (/\ PortfolioRan
     /\ RGe(data["portfolio"].cash, R(0))
     /\ data["portfolio"].stock >= 0
     /\ RGt(LatestClose, R(0))) =>
        LET o == data["final_decision"]
            cash == data["portfolio"].cash
            total == RAdd(cash, RMul(R(data["portfolio"].stock), LatestClose))
        IN  /\ o.action = "buy" => RLe(RMul(R(o.quantity), LatestClose), cash)
            /\ RLe(RMul(R(o.reasoning.portfolio.target_shares), LatestClose),
                   RMul(Rat(8, 10), total))

\* A purchase at the cap on a non-empty holding, where the quotient
\* target_value / price is not whole: cash 1000, close 30, position_size 0.8.
C12_Witness ==
    /\ PortfolioRan
    /\ data["portfolio"].cash = R(1000)
    /\ data["portfolio"].stock > 0
    /\ LatestClose = R(30)
    /\ data["position_size"] = Rat(8, 10)
    /\ data["final_decision"].action = "buy"
    /\ data["final_decision"].quantity
          = data["final_decision"].reasoning.portfolio.target_shares
              - data["portfolio"].stock
    /\ RLt(RMul(R(data["final_decision"].reasoning.portfolio.target_shares), LatestClose),
           RMul(Rat(8, 10), data["final_decision"].reasoning.portfolio.total_value))

============================================================================
